---------------------------- MODULE Spec2Model ----------------------------
(***************************************************************************)
(* A model of the EventBus dispatcher (EventBus.hpp) and of the bounded    *)
(* task queue (ThreadQueue.hpp) it feeds.  The worker pool that drains the *)
(* queue (ThreadPool.hpp) is modelled from the specification's section     *)
(* 4.3.                                                                    *)
(*                                                                         *)
(* Callers of the bus API are serialized (one API call at a time); a       *)
(* publish is a loop of addTask calls, and the workers run between them.   *)
(***************************************************************************)
EXTENDS Integers, Sequences, FiniteSets, TLC

(***************************************************************************)
(* Bounds of the model.                                                    *)
(***************************************************************************)
MaxId == 2          \* subscriptions issued in one behaviour
MaxPub == 2         \* publish calls that reach their fan-out loop
QueueCap == 2       \* task_max of the configurations that build a pool
MaxThreads == 2     \* worker slots of a pool
NumPublishers == 2  \* publisher threads of the concurrent-publish scenario
PubsPerThread == 2  \* publishes of each publisher thread in that scenario
Burst == 2          \* events of each priority in the priority-ordering scenario
MaxQueueOps == 4    \* addTask calls, and getTask calls that throw, on a queue driven directly
MaxGrow == 4        \* subscriptions made to one topic when its vector grows

(***************************************************************************)
(* Program constants.                                                      *)
(***************************************************************************)
ReserveHint == 3    \* it->second.reserve(3)
HIGH == 0           \* TaskPriority::HIGH
MIDDLE == 1         \* TaskPriority::MIDDLE
LOW == 2            \* TaskPriority::LOW

Topics == {"t1", "t2"}
Priorities == {HIGH, MIDDLE, LOW}
ThreadModels == {"FIXED", "DYNAMIC", "UNDEFINED"}
\* "INVALID" stands for any value of the enum's underlying type that is
\* neither enumerator: what a default-constructed EventBusConfig may hold.
TaskModels == {"NORMAL", "PRIORITY", "INVALID"}

\* The std::function types a handler is stored as, and the types
\* std::function<void(Args...)> a publish casts to (Args decayed).
HandlerSigs == {"void()", "void(int)", "void(int&)"}
PublishSigs == {"void()", "void(int)"}
Callbacks == [sig : HandlerSigs, throws : {FALSE}]
\* The handlers of the specifications below take the published int.
IntCallbacks == [sig : {"void(int)"}, throws : {FALSE}]
\* Handlers that return and handlers that throw.
ThrowCallbacks == [sig : {"void()", "void(int)"}, throws : BOOLEAN]

VARIABLES
    init_status,    \* EventBus::init_status
    task_model,     \* EventBus::task_model
    config,         \* EventBus::config
    thread_pool,    \* EventBus::thread_pool (live = FALSE: the null pointer)
    callbacks_map,  \* EventBus::callbacks_map: topic -> sequence of CallbackWrapper
    vcap,           \* capacity() of each topic's vector
    next_id,        \* EventBus::next_id
    task_queue,     \* the pool's queue, in arrival order
    workers,        \* the pool's worker threads: off, idle, or busy with an item
    cur,            \* each caller thread's position inside a publish loop
    pubs,           \* recorded publish calls that reached their loop
    last,           \* the last completed API call and its outcome
    issued,         \* ids returned by subscribe so far
    removed,        \* ids for which unsubscribe has returned true
    fan,            \* ids the publish in progress (or just returned) enqueued for
    invoked,        \* per publish: ids of the handlers its items invoked, in order
    expected,       \* per publish: ids whose handler accepts the published type
                    \* (none once the publish has failed)
    started,        \* per publish: the topic's ids and the removed ids when
                    \* the publish began, the published argument types
                    \* and the priority the caller gave
    pc,             \* publishes a publisher thread still has to make (0: none)
    track,          \* whether this specification records invoked and expected
    qlog,           \* a ThreadQueue driven directly: the items whose addTask
                    \* succeeded and the items getTask returned, in order,
                    \* the addTask calls made and the getTask calls that threw
    crashed         \* the process died (null dereference, use after free)

vars == <<init_status, task_model, config, thread_pool, callbacks_map, vcap,
          next_id, task_queue, workers, cur, pubs, last, issued, fan,
          invoked, expected, pc, track, crashed, removed, started, qlog>>

busVars == <<init_status, task_model, config, thread_pool>>
regVars == <<callbacks_map, vcap, next_id, issued, removed>>
ghostVars == <<invoked, expected, started, track, qlog>>

(***************************************************************************)
(* Values.                                                                 *)
(***************************************************************************)
NoItem == [topic |-> "", slot |-> 0, args |-> "", prio |-> 0, for_id |-> 0,
           accepted |-> FALSE, pub |-> 0, dangling |-> FALSE]
NullPool == [live |-> FALSE, type |-> "NORMAL", dynamic |-> FALSE,
             thread_min |-> 0, thread_max |-> 0, capacity |-> 0,
             shrink_credits |-> 0, shutdown |-> FALSE, manager |-> FALSE,
             closed |-> FALSE]
NoConfig == [thread_model |-> "UNDEFINED", task_model |-> "INVALID",
             thread_min |-> 0, thread_max |-> 0, task_max |-> 0]
Idle == [op |-> "idle", topic |-> "", args |-> "", prio |-> 0, i |-> 0, n |-> 0,
         pub |-> 0]
NoLog == [enq |-> <<>>, deq |-> <<>>, n |-> 0, empty |-> 0]
OffWorker == [st |-> "off", item |-> NoItem]
IdleWorker == [st |-> "idle", item |-> NoItem]

Range(s) == {s[i] : i \in 1..Len(s)}
IdsOf(s) == [i \in 1..Len(s) |-> s[i].id]


(***************************************************************************)
(* The registry half of the bus as a value, so that one API function can   *)
(* call another: init_status, callbacks_map, the vectors' capacities,      *)
(* next_id, and the topics whose vector was reallocated by the call.       *)
(***************************************************************************)
Bus == [init |-> init_status, map |-> callbacks_map, vcap |-> vcap,
        next |-> next_id, moved |-> {}]

Ok(B, ret) == [err |-> "none", ret |-> ret, bus |-> B]
Throw(B, e) == [err |-> e, ret |-> 0, bus |-> B]

\* EventBus::ensureInitialized: TRUE when it returns, FALSE when it throws.
ensureInitialized(B) == B.init

\* A registration that replaces the entry of a topic it finds registered.
tryRegisterEventReset(B, eventName) ==
    IF ~ensureInitialized(B) THEN Throw(B, "NotInitialized")
    ELSE Ok([B EXCEPT !.map = (eventName :> <<>>) @@ @,
                      !.vcap = (eventName :> ReserveHint) @@ @], 0)

\* EventBus::tryRegisterEvent: try_emplace, and reserve(3) on insertion.
tryRegisterEvent(B, eventName) ==
    IF ~ensureInitialized(B) THEN Throw(B, "NotInitialized")
    ELSE IF eventName \in DOMAIN B.map THEN Ok(B, 0)
    ELSE Ok([B EXCEPT !.map = @ @@ (eventName :> <<>>),
                      !.vcap = @ @@ (eventName :> ReserveHint)], 0)

\* std::vector::emplace_back: a full vector moves to a new buffer of twice
\* the capacity (the growth factor is the library's; only the moment of the
\* move matters here).
emplace_back(B, eventName, wrapper) ==
    LET full == Len(B.map[eventName]) = B.vcap[eventName]
    IN  [B EXCEPT !.map[eventName] = Append(@, wrapper),
                  !.vcap[eventName] = IF full THEN 2 * @ ELSE @,
                  !.moved = IF full THEN @ \cup {eventName} ELSE @]

\* A subscribe that hands out the current counter value without advancing it.
subscribeNoIncrement(B, eventName, callback) ==
    IF eventName \notin DOMAIN B.map THEN Throw(B, "NotRegistered")
    ELSE LET id == IF B.next = 0 THEN 1 ELSE B.next
         IN  Ok(emplace_back([B EXCEPT !.next = id], eventName,
                             [id |-> id, callback |-> callback]), id)

\* A subscribe that takes its id before it looks the topic up.
subscribeIdFirst(B, eventName, callback) ==
    LET id == B.next + 1
    IN  IF eventName \notin DOMAIN B.map
        THEN Throw([B EXCEPT !.next = id], "NotRegistered")
        ELSE Ok(emplace_back([B EXCEPT !.next = id], eventName,
                             [id |-> id, callback |-> callback]), id)

\* EventBus::subscribe(const std::string&, std::function<void(Args...)>):
\* no ensureInitialized here.
subscribe(B, eventName, callback) ==
    IF eventName \notin DOMAIN B.map THEN Throw(B, "NotRegistered")
    ELSE LET id == B.next + 1
         IN  Ok(emplace_back([B EXCEPT !.next = id], eventName,
                             [id |-> id, callback |-> callback]), id)

\* EventBus::subscribe(const std::string&, Callback&&)
subscribeCallback(B, eventName, callback) ==
    IF ~ensureInitialized(B) THEN Throw(B, "NotInitialized")
    ELSE subscribe(B, eventName, callback)

\* A subscribeSafe that puts the new record at the front of the entry.
subscribeSafeFront(B, eventName, callback) ==
    LET r == tryRegisterEvent(B, eventName)
    IN  IF r.err # "none" THEN r
        ELSE LET s == subscribe(r.bus, eventName, callback)
                 m == s.bus.map[eventName]
             IN  [s EXCEPT !.bus.map[eventName] =
                               <<m[Len(m)]>> \o SubSeq(m, 1, Len(m) - 1)]

\* EventBus::subscribeSafe(const std::string&, std::function<void(Args...)>)
subscribeSafe(B, eventName, callback) ==
    LET r == tryRegisterEvent(B, eventName)
    IN  IF r.err # "none" THEN r ELSE subscribe(r.bus, eventName, callback)

\* EventBus::subscribeSafe(const std::string, Callback&&): registers, then
\* calls the std::function overload (which registers again).
subscribeSafeCallback(B, eventName, callback) ==
    LET r == tryRegisterEvent(B, eventName)
    IN  IF r.err # "none" THEN r ELSE subscribeSafe(r.bus, eventName, callback)

\* std::find_if over the entry: the first index holding id, 0 for end().
find_if(callbacks, id) ==
    IF \E i \in 1..Len(callbacks) : callbacks[i].id = id
    THEN CHOOSE i \in 1..Len(callbacks) :
             /\ callbacks[i].id = id
             /\ \A j \in 1..(i - 1) : callbacks[j].id # id
    ELSE 0

\* An erase that drops the last element whatever the iterator.
eraseLast(callbacks, i) == SubSeq(callbacks, 1, Len(callbacks) - 1)

\* std::vector::erase(it): the later elements move down one slot.
erase(callbacks, i) ==
    SubSeq(callbacks, 1, i - 1) \o SubSeq(callbacks, i + 1, Len(callbacks))

\* EventBus::unsubscribe: ret 1 for true, 0 for false.
unsubscribe(B, eventName, id) ==
    IF ~ensureInitialized(B) THEN Throw(B, "NotInitialized")
    ELSE IF eventName \notin DOMAIN B.map THEN Ok(B, 0)
    ELSE LET it == find_if(B.map[eventName], id)
         IN  IF it # 0
             THEN Ok([B EXCEPT !.map[eventName] = erase(@, it)], 1)
             ELSE Ok(B, 0)

\* EventBus::isEventRegistered
isEventRegistered(eventName) == eventName \in DOMAIN callbacks_map

(***************************************************************************)
(* The task queue.  ThreadQueue is a std::queue behind a mutex; the        *)
(* priority queue keeps the same items ordered by (priority, arrival), and *)
(* is held here in arrival order.                                          *)
(***************************************************************************)
\* A getTask that returns the front item and leaves it in the queue.
getTaskNoPop(q) == [ok |-> TRUE, task |-> Head(q), q |-> q]

\* A queue that takes every item.
addTaskUnbounded(q, capacity, task) == [ok |-> TRUE, q |-> Append(q, task)]

\* A queue that puts a new item at its head.
addTaskFront(q, capacity, task) ==
    IF Len(q) >= capacity THEN [ok |-> FALSE, q |-> q]
    ELSE [ok |-> TRUE, q |-> <<task>> \o q]

\* A queue that gives up its newest item when it rejects one.
addTaskRollback(q, capacity, task) ==
    IF Len(q) >= capacity
    THEN [ok |-> FALSE, q |-> SubSeq(q, 1, Len(q) - 1)]
    ELSE [ok |-> TRUE, q |-> Append(q, task)]

\* ThreadQueue::addTask: ok = FALSE is the throw of "queue is full".
addTask(q, capacity, task) ==
    IF Len(q) >= capacity THEN [ok |-> FALSE, q |-> q]
    ELSE [ok |-> TRUE, q |-> Append(q, task)]

\* A getTask that returns the newest item.
getTaskBack(q) ==
    IF q = <<>> THEN [ok |-> FALSE, task |-> NoItem, q |-> q]
    ELSE [ok |-> TRUE, task |-> q[Len(q)], q |-> SubSeq(q, 1, Len(q) - 1)]

\* ThreadQueue::getTask: ok = FALSE is the throw of "task queue is empty".
getTask(q) ==
    IF q = <<>> THEN [ok |-> FALSE, task |-> NoItem, q |-> q]
    ELSE [ok |-> TRUE, task |-> Head(q), q |-> Tail(q)]

\* The priority queue's dequeue: the least (priority, arrival) pair.
getTaskPriority(q) ==
    LET k == CHOOSE i \in 1..Len(q) :
                 \A j \in 1..Len(q) :
                     \/ q[i].prio < q[j].prio
                     \/ (q[i].prio = q[j].prio /\ i <= j)
    IN  [task |-> q[k], q |-> SubSeq(q, 1, k - 1) \o SubSeq(q, k + 1, Len(q))]

(***************************************************************************)
(* The worker pool.                                                        *)
(***************************************************************************)
\* ThreadPool's constructor accepts the bounds of the specification's
\* section 3.
PoolCtorOk(thread_min, thread_max, capacity) ==
    thread_min >= 1 /\ thread_min <= thread_max /\ capacity >= 1

NewPool(thread_min, thread_max, capacity, type, dynamic) ==
    [live |-> TRUE, type |-> type, dynamic |-> dynamic,
     thread_min |-> thread_min, thread_max |-> thread_max,
     capacity |-> capacity, shrink_credits |-> 0, shutdown |-> FALSE,
     manager |-> dynamic, closed |-> FALSE]

\* The constructor starts thread_min workers.
StartWorkers(thread_min) ==
    [w \in 1..MaxThreads |-> IF w <= thread_min THEN IdleWorker ELSE OffWorker]

\* A pool that takes work after its shutdown.
PoolAddTaskAfterShutdown(pool, q, task, withPriority) ==
    IF (pool.type = "PRIORITY") # withPriority
    THEN [err |-> "PoolMismatch", q |-> q]
    ELSE LET r == addTask(q, pool.capacity, task)
         IN  [err |-> IF r.ok THEN "none" ELSE "QueueFull", q |-> r.q]

\* ThreadPool::addTask(func) and ThreadPool::addTask(priority, func):
\* "PoolShutdown" after closeThreadPool, "mismatch" when the call does not
\* fit the pool's queue type.
PoolAddTask(pool, q, task, withPriority) ==
    IF pool.shutdown THEN [err |-> "PoolShutdown", q |-> q]
    ELSE IF (pool.type = "PRIORITY") # withPriority
    THEN [err |-> "PoolMismatch", q |-> q]
    ELSE LET r == addTask(q, pool.capacity, task)
         IN  [err |-> IF r.ok THEN "none" ELSE "QueueFull", q |-> r.q]

BusyWorkers == {w \in 1..MaxThreads : workers[w].st = "busy"}

\* ThreadPool::getThreadPoolSize: the running workers.
PoolSize == Cardinality({w \in 1..MaxThreads : workers[w].st # "off"})

\* Work items of publish p that are enqueued and not yet executed.
Pending(p) ==
    Cardinality({i \in 1..Len(task_queue) : task_queue[i].pub = p})
    + Cardinality({w \in BusyWorkers : workers[w].item.pub = p})

\* The reference captured by a work item dangles once its vector moved.
Dangle(moved, item) ==
    IF item.topic \in moved THEN [item EXCEPT !.dangling = TRUE] ELSE item

MarkQueue(moved, q) == [i \in 1..Len(q) |-> Dangle(moved, q[i])]
MarkWorkers(moved, ws) ==
    [w \in 1..MaxThreads |-> [ws[w] EXCEPT !.item = Dangle(moved, @)]]

(***************************************************************************)
(* The state after construction: EventBus() = default.                     *)
(***************************************************************************)
InitBus ==
    /\ init_status = FALSE
    /\ task_model = "INVALID"
    /\ config = NoConfig
    /\ thread_pool = NullPool
    /\ callbacks_map = <<>>
    /\ vcap = <<>>
    /\ next_id = 0
    /\ task_queue = <<>>
    /\ workers = [w \in 1..MaxThreads |-> OffWorker]
    /\ cur = [th \in 1..NumPublishers |-> Idle]
    /\ pubs = 0
    /\ last = [n |-> 0, op |-> "construct", topic |-> "", err |-> "none", ret |-> 0]
    /\ issued = {}
    /\ fan = <<>>
    /\ invoked = <<>>
    /\ expected = <<>>
    /\ removed = {}
    /\ started = <<>>
    /\ pc = [t \in 1..NumPublishers |-> 0]
    /\ crashed = FALSE
    /\ qlog = NoLog

Init == InitBus /\ track = FALSE

\* The API caller (thread 1) is between two calls and the process is alive.
CallerReady == cur[1] = Idle /\ ~crashed

Returned(op, topic, err, ret) ==
    [n |-> 1 - last.n, op |-> op, topic |-> topic, err |-> err, ret |-> ret]

(***************************************************************************)
(* EventBus::initEventBus.  The configurations the callers of this         *)
(* specification pass: two that build a pool, one with an invalid task     *)
(* model, one the pool's constructor rejects, one with no thread model.    *)
(***************************************************************************)
Config(tm, tsk, tmin, tmax, cap) ==
    [thread_model |-> tm, task_model |-> tsk, thread_min |-> tmin,
     thread_max |-> tmax, task_max |-> cap]

BusConfigs ==
    { Config("DYNAMIC", "NORMAL", 1, MaxThreads, QueueCap),
      Config("FIXED", "PRIORITY", 1, 1, QueueCap),
      Config("FIXED", "INVALID", 1, 1, QueueCap),
      Config("FIXED", "NORMAL", 0, 0, QueueCap),
      Config("UNDEFINED", "NORMAL", 1, 1, QueueCap),
      Config("UNDEFINED", "INVALID", 1, 1, QueueCap) }

\* A pool built with the configuration's upper bound as its lower bound.
PoolMinFromMax(c) == c.thread_max

\* The first argument initEventBus passes to the ThreadPool constructor.
PoolMin(c) == c.thread_min

\* A pool allowed one worker more than the configuration's upper bound.
PoolMaxPlusOne(c) ==
    IF c.thread_model = "DYNAMIC" THEN c.thread_max + 1 ELSE c.thread_min

\* The second argument: thread_max for DYNAMIC, thread_min for FIXED.
PoolMax(c) ==
    IF c.thread_model = "DYNAMIC" THEN c.thread_max ELSE c.thread_min

\* A pool that gets a manager whatever the thread model.
PoolDynamicAlways(c) == TRUE

\* The last argument: true in the DYNAMIC branch, false in the FIXED one.
PoolDynamic(c) == c.thread_model = "DYNAMIC"

initEventBus(c) ==
    LET builds == c.thread_model \in {"DYNAMIC", "FIXED"}
        dynamic == PoolDynamic(c)
        tmax == PoolMax(c)
        ctorOk == PoolCtorOk(PoolMin(c), tmax, c.task_max)
    IN
    /\ CallerReady
    /\ config' = c
    /\ fan' = <<>>
    /\ UNCHANGED <<regVars, cur, pubs, ghostVars, pc, crashed>>
    /\ IF builds /\ c.task_model \notin {"NORMAL", "PRIORITY"}
       THEN /\ last' = Returned("init", "", "Configuration", 0)
            /\ UNCHANGED <<init_status, task_model, thread_pool, task_queue,
                           workers>>
       ELSE IF builds /\ ~ctorOk
       THEN /\ last' = Returned("init", "", "PoolConfig", 0)
            /\ UNCHANGED <<init_status, task_model, thread_pool, task_queue,
                           workers>>
       ELSE IF builds
       THEN \* the old pool, if any, is destroyed: its workers are joined and
            \* what is still queued is dropped
            /\ BusyWorkers = {}
            /\ thread_pool' = NewPool(PoolMin(c), tmax, c.task_max,
                                      c.task_model, dynamic)
            /\ task_queue' = <<>>
            /\ workers' = StartWorkers(PoolMin(c))
            /\ init_status' = TRUE
            /\ task_model' = c.task_model
            /\ last' = Returned("init", "", "none", 0)
       ELSE \* neither DYNAMIC nor FIXED: no branch is taken
            /\ init_status' = TRUE
            /\ task_model' = c.task_model
            /\ last' = Returned("init", "", "none", 0)
            /\ UNCHANGED <<thread_pool, task_queue, workers>>

(***************************************************************************)
(* The registry calls.  Commit writes a call's result back.                *)
(***************************************************************************)
SubscribeOps == {"subscribe", "subscribeCallback", "subscribeSafe",
                 "subscribeSafeCallback"}

Commit(op, topic, r) ==
    /\ callbacks_map' = r.bus.map
    /\ vcap' = r.bus.vcap
    /\ next_id' = r.bus.next
    /\ issued' = IF op \in SubscribeOps /\ r.err = "none"
                 THEN issued \cup {r.ret} ELSE issued
    /\ task_queue' = MarkQueue(r.bus.moved, task_queue)
    /\ workers' = MarkWorkers(r.bus.moved, workers)
    /\ last' = Returned(op, topic, r.err, r.ret)
    /\ fan' = <<>>
    /\ UNCHANGED <<busVars, cur, pubs, ghostVars, pc, crashed>>

TryRegisterEvent(t) ==
    /\ CallerReady
    /\ Commit("tryRegisterEvent", t, tryRegisterEvent(Bus, t))
    /\ UNCHANGED removed

Subscribe(t, cb) ==
    /\ CallerReady /\ next_id < MaxId
    /\ Commit("subscribe", t, subscribe(Bus, t, cb))
    /\ UNCHANGED removed

SubscribeCallback(t, cb) ==
    /\ CallerReady /\ next_id < MaxId
    /\ Commit("subscribeCallback", t, subscribeCallback(Bus, t, cb))
    /\ UNCHANGED removed

SubscribeSafe(t, cb) ==
    /\ CallerReady /\ next_id < MaxId
    /\ Commit("subscribeSafe", t, subscribeSafe(Bus, t, cb))
    /\ UNCHANGED removed

SubscribeSafeCallback(t, cb) ==
    /\ CallerReady /\ next_id < MaxId
    /\ Commit("subscribeSafeCallback", t, subscribeSafeCallback(Bus, t, cb))
    /\ UNCHANGED removed

Unsubscribe(t, id) ==
    /\ CallerReady
    /\ Commit("unsubscribe", t, unsubscribe(Bus, t, id))
    /\ removed' = IF unsubscribe(Bus, t, id).ret = 1
                  THEN removed \cup {id} ELSE removed

(***************************************************************************)
(* EventBus::publish and EventBus::publishWithPriority.  PublishBegin is   *)
(* the code before the loop, FanOut one turn of the loop (or the return    *)
(* after the last turn).                                                   *)
(***************************************************************************)
\* A cast that succeeds whatever the stored type.
AcceptsAny(sig, args) == TRUE

\* A cast without the fallback to std::function<void()>.
AcceptsExact(sig, args) == sig = args

\* std::any_cast<std::function<void(Args...)>> succeeds on the identical
\* type only; the publish with arguments then tries std::function<void()>.
Accepts(sig, args) == sig = args \/ sig = "void()"

Accepting(callbacks, args) ==
    {callbacks[i].id : i \in {j \in 1..Len(callbacks) :
                                  Accepts(callbacks[j].callback.sig, args)}}

\* An entry check that reports an unknown topic as an uninitialized bus.
PublishCheckSwapped(B, eventName) ==
    IF ~ensureInitialized(B) THEN "NotInitialized"
    ELSE IF eventName \notin DOMAIN B.map THEN "NotInitialized"
    ELSE "none"

\* The entry of publish and publishWithPriority: ensureInitialized(), then
\* callbacks_map.find(eventName).
PublishCheck(B, eventName) ==
    IF ~ensureInitialized(B) THEN "NotInitialized"
    ELSE IF eventName \notin DOMAIN B.map THEN "NotRegistered"
    ELSE "none"

PublishBegin(th, op, t, a, prio) ==
    LET e == PublishCheck(Bus, t)
    IN
    /\ ~crashed
    /\ cur[th] = Idle
    /\ fan' = <<>>
    /\ pc' = [pc EXCEPT ![th] = IF @ > 0 THEN @ - 1 ELSE @]
    /\ UNCHANGED <<busVars, regVars, task_queue, workers, crashed>>
    /\ IF e # "none"
       THEN /\ last' = Returned(op, t, e, 0)
            /\ UNCHANGED <<cur, pubs, ghostVars>>
       ELSE /\ cur' = [cur EXCEPT ![th] =
                          [op |-> op, topic |-> t, args |-> a, prio |-> prio,
                           i |-> 1, n |-> Len(callbacks_map[t]),
                           pub |-> IF track THEN pubs + 1 ELSE 0]]
            /\ pubs' = IF track THEN pubs + 1 ELSE pubs
            /\ invoked' = IF track THEN Append(invoked, <<>>) ELSE invoked
            /\ expected' = IF track
                           THEN Append(expected, Accepting(callbacks_map[t], a))
                           ELSE expected
            /\ started' = IF track
                          THEN Append(started,
                                      [ids |-> IdsOf(callbacks_map[t]),
                                       removed |-> removed,
                                       args |-> a,
                                       prio |-> prio])
                          ELSE started
            /\ UNCHANGED <<last, track, qlog>>

\* A publish that hands the classes to the pool upside down.
PriorityArgInverted(priority) == LOW - priority

\* A publish that hands every item to the pool as MIDDLE.
PriorityArgFlat(priority) == MIDDLE

\* static_cast<int>(priority): the priority argument of the pool's addTask.
PriorityArg(priority) == priority

\* The work item built for slot i of the topic: it captures a reference to
\* the vector element (&wrapper) and the shared argument tuple.
\* An element past the vector's end (the loop's end iterator was taken before
\* an erase) belongs to no subscription: for_id 0, and the reference dangles.
WorkItem(c) ==
    LET entry == callbacks_map[c.topic]
        inside == c.i <= Len(entry)
    IN  [topic |-> c.topic, slot |-> c.i, args |-> c.args,
         prio |-> PriorityArg(c.prio),
         for_id |-> IF inside THEN entry[c.i].id ELSE 0,
         accepted |-> inside /\ Accepts(entry[c.i].callback.sig, c.args),
         pub |-> c.pub, dangling |-> ~inside]

\* A loop that visits the topic's records from the last to the first.
LoopSlotReverse(c) == c.n + 1 - c.i

\* The element the range-for visits in its i-th turn.
LoopSlot(c) == c.i

Return(th, c, err) ==
    /\ last' = Returned(c.op, c.topic, err, 0)
    /\ cur' = [cur EXCEPT ![th] = Idle]
    /\ expected' = IF track /\ err # "none"
                   THEN [expected EXCEPT ![c.pub] = {}] ELSE expected

FanOut(th) ==
    LET c == cur[th]
        withPriority == c.op = "publishWithPriority"
        mine == IF withPriority THEN "PRIORITY" ELSE "NORMAL"
        other == IF withPriority THEN "NORMAL" ELSE "PRIORITY"
        item == WorkItem([c EXCEPT !.i = LoopSlot(c)])
        r == PoolAddTask(thread_pool, task_queue, item, withPriority)
    IN
    /\ ~crashed
    /\ c.op # "idle"
    /\ UNCHANGED <<busVars, regVars, workers, pubs, invoked, started, track,
                   qlog, pc>>
    /\ IF c.i > c.n
       THEN /\ Return(th, c, "none")
            /\ UNCHANGED <<task_queue, fan, crashed>>
       ELSE IF task_model = other
       THEN /\ Return(th, c, "TaskModelMismatch")
            /\ UNCHANGED <<task_queue, fan, crashed>>
       ELSE IF task_model # mine
       THEN \* neither branch of the loop body is taken
            /\ cur' = [cur EXCEPT ![th].i = c.i + 1]
            /\ UNCHANGED <<task_queue, fan, last, expected, crashed>>
       ELSE IF ~thread_pool.live
       THEN \* thread_pool-> on the null pointer
            /\ crashed' = TRUE
            /\ UNCHANGED <<task_queue, fan, last, cur, expected>>
       ELSE IF r.err # "none"
       THEN \* the queue's exception leaves publish
            /\ Return(th, c, r.err)
            /\ task_queue' = r.q
            /\ UNCHANGED <<fan, crashed>>
       ELSE /\ task_queue' = r.q
            /\ fan' = Append(fan, item.for_id)
            /\ cur' = [cur EXCEPT ![th].i = c.i + 1]
            /\ UNCHANGED <<last, expected, crashed>>

Publish(t, a) == PublishBegin(1, "publish", t, a, 0)

PublishWithPriority(prio, t, a) ==
    PublishBegin(1, "publishWithPriority", t, a, prio)

(***************************************************************************)
(* The workers.                                                            *)
(***************************************************************************)
\* What a handler may throw: a type derived from std::exception, or any
\* other type.
ExceptionKinds == {"std::exception", "other"}

\* A work item whose handlers only catch std::exception.
CatchClausesStdOnly(type, args) == {"std::exception"}

\* The catch clauses around the handler call in the four work items:
\* publish without arguments, publish with arguments, publishWithPriority
\* without and with arguments (the pool's type tells which call built it).
CatchClauses(type, args) ==
    IF type = "NORMAL" /\ args # "void()"
    THEN {"std::exception", "..."}
    ELSE {"..."}

\* A catch that lets every exception pass.
CaughtNever(kind, clauses) == FALSE

\* Whether one of the clauses catches an exception of that kind.
Caught(kind, clauses) ==
    \/ "..." \in clauses
    \/ kind = "std::exception" /\ "std::exception" \in clauses

\* What running a work item does: the handler invoked (0: none), whether it
\* threw, and whether the process survives.  The item reads the vector element its reference
\* names; when that element was destroyed (erase shortened the vector) or
\* its buffer freed (the vector moved), the read is undefined: nothing is
\* invoked, or the bytes of the record the item was built for are still
\* there and its handler runs, or the process dies.
RunOutcomes(item) ==
    LET entry == callbacks_map[item.topic]
        stale == IF item.accepted THEN item.for_id ELSE 0
    IN  IF item.dangling \/ item.slot > Len(entry)
        THEN {[id |-> 0, crash |-> FALSE, threw |-> FALSE],
              [id |-> stale, crash |-> FALSE, threw |-> FALSE],
              [id |-> 0, crash |-> TRUE, threw |-> FALSE]}
        ELSE LET wrapper == entry[item.slot]
                 runs == Accepts(wrapper.callback.sig, item.args)
             IN  {[id |-> IF runs THEN wrapper.id ELSE 0,
                   crash |-> FALSE,
                   threw |-> runs /\ wrapper.callback.throws]}

WorkerTake(w) ==
    /\ ~crashed
    /\ thread_pool.live
    /\ workers[w].st = "idle"
    /\ task_queue # <<>>
    /\ LET r == IF thread_pool.type = "NORMAL" THEN getTask(task_queue)
                ELSE getTaskPriority(task_queue)
       IN  /\ task_queue' = r.q
           /\ workers' = [workers EXCEPT ![w] = [st |-> "busy", item |-> r.task]]
    /\ UNCHANGED <<busVars, regVars, cur, pubs, last, fan, ghostVars, pc,
                   crashed>>

WorkerRun(w) ==
    /\ ~crashed
    /\ workers[w].st = "busy"
    /\ \E o \in RunOutcomes(workers[w].item), kind \in ExceptionKinds :
           \* an exception that leaves the work item ends the process
           /\ crashed' = (o.crash
                          \/ (o.threw
                              /\ ~Caught(kind,
                                         CatchClauses(thread_pool.type,
                                                      workers[w].item.args))))
           /\ invoked' = IF o.id = 0 \/ ~track THEN invoked
                         ELSE [invoked EXCEPT ![workers[w].item.pub] =
                                                  Append(@, o.id)]
    /\ workers' = [workers EXCEPT ![w] = IdleWorker]
    /\ UNCHANGED <<busVars, regVars, task_queue, cur, pubs, last, fan,
                   expected, started, pc, track, qlog>>

(***************************************************************************)
(* The pool's manager and its shutdown.                                    *)
(***************************************************************************)
\* The manager's rule to start one worker.
MayGrow(pool, size, queued) == queued > size /\ size < pool.thread_max

\* A shrink rule that does not count the credits already issued.
MayShrinkIgnoringCredits(pool, size, busy) ==
    busy * 2 < size /\ size > pool.thread_min

\* The manager's rule to mark one worker for a voluntary exit.
MayShrink(pool, size, busy) ==
    busy * 2 < size /\ size - pool.shrink_credits > pool.thread_min

ManagerRuns ==
    ~crashed /\ thread_pool.live /\ thread_pool.dynamic
    /\ ~thread_pool.shutdown

\* A tick of the manager that starts a worker.
ManagerGrow ==
    /\ ManagerRuns
    /\ MayGrow(thread_pool, PoolSize, Len(task_queue))
    /\ \E w \in 1..MaxThreads :
           /\ workers[w].st = "off"
           /\ \A v \in 1..(w - 1) : workers[v].st # "off"
           /\ workers' = [workers EXCEPT ![w] = IdleWorker]
    /\ UNCHANGED <<busVars, regVars, task_queue, cur, pubs, last, fan,
                   ghostVars, pc, crashed>>

\* A tick of the manager that issues a shrink credit.
ManagerShrink ==
    /\ ManagerRuns
    /\ MayShrink(thread_pool, PoolSize, Cardinality(BusyWorkers))
    /\ thread_pool' = [thread_pool EXCEPT !.shrink_credits = @ + 1]
    /\ UNCHANGED <<init_status, task_model, config, regVars, task_queue,
                   workers, cur, pubs, last, fan, ghostVars, pc, crashed>>

\* A worker that takes the queue's front item, then finds a shrink credit
\* and exits with the item.
WorkerExitDropsItem(w) ==
    /\ ~crashed /\ thread_pool.live /\ ~thread_pool.shutdown
    /\ workers[w].st = "idle"
    /\ thread_pool.shrink_credits > 0
    /\ thread_pool' = [thread_pool EXCEPT !.shrink_credits = @ - 1]
    /\ workers' = [workers EXCEPT ![w] = OffWorker]
    /\ task_queue' = getTask(task_queue).q
    /\ UNCHANGED <<init_status, task_model, config, regVars,
                   cur, pubs, last, fan, ghostVars, pc, crashed>>

\* An idle worker wakes up, consumes a shrink credit and exits.
WorkerExit(w) ==
    /\ ~crashed /\ thread_pool.live /\ ~thread_pool.shutdown
    /\ workers[w].st = "idle"
    /\ thread_pool.shrink_credits > 0
    /\ thread_pool' = [thread_pool EXCEPT !.shrink_credits = @ - 1]
    /\ workers' = [workers EXCEPT ![w] = OffWorker]
    /\ UNCHANGED <<init_status, task_model, config, regVars, task_queue,
                   cur, pubs, last, fan, ghostVars, pc, crashed>>

\* ThreadPool::closeThreadPool, the call: the shutdown flag is set and every
\* thread waiting on the queue is woken.  A call on a pool that is shut down
\* changes nothing.
CloseThreadPool ==
    /\ ~crashed /\ thread_pool.live
    /\ thread_pool' = [thread_pool EXCEPT !.shutdown = TRUE]
    /\ UNCHANGED <<init_status, task_model, config, regVars, task_queue,
                   workers, cur, pubs, last, fan, ghostVars, pc, crashed>>

\* A worker's dequeue observes the shutdown flag on an empty queue: the
\* worker exits.
WorkerStop(w) ==
    /\ ~crashed /\ thread_pool.live /\ thread_pool.shutdown
    /\ workers[w].st = "idle"
    /\ task_queue = <<>>
    /\ workers' = [workers EXCEPT ![w] = OffWorker]
    /\ UNCHANGED <<busVars, regVars, task_queue, cur, pubs, last, fan,
                   ghostVars, pc, crashed>>

\* The manager finds the shutdown flag set and exits.
ManagerStop ==
    /\ ~crashed /\ thread_pool.live /\ thread_pool.shutdown
    /\ thread_pool.manager
    /\ thread_pool' = [thread_pool EXCEPT !.manager = FALSE]
    /\ UNCHANGED <<init_status, task_model, config, regVars, task_queue,
                   workers, cur, pubs, last, fan, ghostVars, pc, crashed>>

\* closeThreadPool returns: the workers and the manager are joined.
CloseReturn ==
    /\ ~crashed /\ thread_pool.live /\ thread_pool.shutdown
    /\ ~thread_pool.closed
    /\ PoolSize = 0 /\ ~thread_pool.manager
    /\ thread_pool' = [thread_pool EXCEPT !.closed = TRUE]
    /\ UNCHANGED <<init_status, task_model, config, regVars, task_queue,
                   workers, cur, pubs, last, fan, ghostVars, pc, crashed>>

(***************************************************************************)
(* unsubscribe called by another thread while a publish is in its fan-out  *)
(* loop.  Neither function takes a lock; the loop holds the iterators it   *)
(* took before the erase.                                                  *)
(***************************************************************************)
UnsubscribeDuringPublish(t, id) ==
    LET r == unsubscribe(Bus, t, id)
    IN
    /\ ~crashed
    /\ cur[1].op \in {"publish", "publishWithPriority"}
    /\ callbacks_map' = r.bus.map
    /\ removed' = IF r.ret = 1 THEN removed \cup {id} ELSE removed
    /\ UNCHANGED <<busVars, vcap, next_id, issued, task_queue, workers, cur,
                   pubs, last, fan, ghostVars, pc, crashed>>

(***************************************************************************)
(* subscribe called from several threads.  The function takes no lock:     *)
(* the id comes from the atomic next_id, the record is then put into the   *)
(* topic's vector by emplace_back.  Two emplace_back calls on one vector   *)
(* that overlap are a data race: both records are stored, or one takes the *)
(* slot of the other, or the process dies.                                 *)
(***************************************************************************)
\* callbacks_map.find(eventName) and ++next_id.
SubscribeFind(th, t, cb) ==
    /\ ~crashed
    /\ cur[th] = Idle
    /\ next_id < MaxId
    /\ IF t \notin DOMAIN callbacks_map
       THEN /\ last' = Returned("subscribe", t, "NotRegistered", 0)
            /\ UNCHANGED <<cur, next_id>>
       ELSE /\ next_id' = next_id + 1
            /\ cur' = [cur EXCEPT ![th] =
                          [op |-> "subscribe", topic |-> t, args |-> cb.sig,
                           prio |-> 0, i |-> next_id + 1,
                           n |-> Len(callbacks_map[t]), pub |-> 0]]
            /\ UNCHANGED last
    /\ UNCHANGED <<busVars, callbacks_map, vcap, issued, removed, task_queue,
                   workers, pubs, fan, ghostVars, pc, crashed>>

\* What emplace_back leaves behind: "stored", or, when another thread has
\* changed the vector since this call looked the topic up, also
\* "overwritten" and "crash".
EmplaceOutcomes(c) ==
    IF Len(callbacks_map[c.topic]) # c.n
    THEN {"stored", "overwritten", "crash"}
    ELSE {"stored"}

\* it->second.emplace_back(CallbackWrapper {id, callback}); return id.
SubscribeEmplace(th) ==
    LET c == cur[th]
        wrapper == [id |-> c.i,
                    callback |-> [sig |-> c.args, throws |-> FALSE]]
        stored == emplace_back(Bus, c.topic, wrapper)
    IN
    /\ ~crashed
    /\ c.op = "subscribe"
    /\ \E o \in EmplaceOutcomes(c) :
           IF o = "crash"
           THEN /\ crashed' = TRUE
                /\ UNCHANGED <<callbacks_map, vcap, issued, last, cur,
                               task_queue, workers>>
           ELSE /\ callbacks_map' =
                       IF o = "stored" THEN stored.map
                       ELSE [callbacks_map EXCEPT ![c.topic] =
                                 SubSeq(@, 1, Len(@) - 1) \o <<wrapper>>]
                /\ vcap' = IF o = "stored" THEN stored.vcap ELSE vcap
                /\ task_queue' = IF o = "stored"
                                 THEN MarkQueue(stored.moved, task_queue)
                                 ELSE task_queue
                /\ workers' = IF o = "stored"
                              THEN MarkWorkers(stored.moved, workers)
                              ELSE workers
                /\ issued' = issued \cup {c.i}
                /\ last' = Returned("subscribe", c.topic, "none", c.i)
                /\ cur' = [cur EXCEPT ![th] = Idle]
                /\ UNCHANGED crashed
    /\ UNCHANGED <<busVars, next_id, removed, pubs, fan, ghostVars, pc>>

(***************************************************************************)
(* Specification Spec: every API call of one caller, as far as the call    *)
(* enqueues no work: a publish is made when the bus is uninitialized, the  *)
(* topic unknown or without subscribers, or the task model is not the      *)
(* call's.  No call reads the queue or the workers, and no worker writes   *)
(* the registry, so the fan-out is left to the specifications below.       *)
(***************************************************************************)
WouldEnqueue(t, mine) ==
    /\ init_status
    /\ t \in DOMAIN callbacks_map
    /\ Len(callbacks_map[t]) > 0
    /\ task_model = mine

Next ==
    \/ \E c \in BusConfigs : initEventBus(c)
    \/ \E t \in Topics : TryRegisterEvent(t)
    \/ \E t \in Topics, cb \in IntCallbacks : Subscribe(t, cb)
    \/ \E t \in Topics, cb \in IntCallbacks : SubscribeCallback(t, cb)
    \/ \E t \in Topics, cb \in IntCallbacks : SubscribeSafe(t, cb)
    \/ \E t \in Topics, cb \in IntCallbacks : SubscribeSafeCallback(t, cb)
    \/ \E t \in Topics, id \in 1..MaxId : Unsubscribe(t, id)
    \/ \E t \in Topics, a \in PublishSigs :
           ~WouldEnqueue(t, "NORMAL") /\ Publish(t, a)
    \/ \E t \in Topics, a \in PublishSigs, prio \in Priorities :
           ~WouldEnqueue(t, "PRIORITY") /\ PublishWithPriority(prio, t, a)
    \/ FanOut(1)

Spec == Init /\ [][Next]_vars

(***************************************************************************)
(* Specification SpecPub: the fan-out.  One caller initializes the bus     *)
(* once, registers, subscribes, unsubscribes and publishes an int, while   *)
(* the pool's workers take and run the work items.                         *)
(***************************************************************************)
NextPub ==
    \/ \E c \in BusConfigs : ~init_status /\ initEventBus(c)
    \/ \E t \in Topics : TryRegisterEvent(t)
    \/ \E t \in Topics, cb \in IntCallbacks : SubscribeCallback(t, cb)
    \/ \E t \in Topics, id \in 1..MaxId : Unsubscribe(t, id)
    \/ \E t \in Topics : Publish(t, "void(int)")
    \/ \E t \in Topics, prio \in {HIGH, LOW} :
           PublishWithPriority(prio, t, "void(int)")
    \/ FanOut(1)
    \/ \E w \in 1..MaxThreads : WorkerTake(w)
    \/ \E w \in 1..MaxThreads : WorkerRun(w)

SpecPub == Init /\ [][NextPub]_vars

(***************************************************************************)
(* Specification SpecDeliver: SpecPub on a bus whose configuration builds  *)
(* a pool, with the handlers each publish invokes recorded (so the number  *)
(* of publishes is bounded).                                               *)
(***************************************************************************)
PoolConfigs ==
    { Config("DYNAMIC", "NORMAL", 1, MaxThreads, QueueCap),
      Config("FIXED", "PRIORITY", 1, 1, QueueCap) }

InitDeliver == InitBus /\ track = TRUE

NextDeliver ==
    \/ \E c \in PoolConfigs : ~init_status /\ initEventBus(c)
    \/ \E t \in Topics : TryRegisterEvent(t)
    \/ \E t \in Topics, cb \in IntCallbacks : SubscribeCallback(t, cb)
    \/ \E t \in Topics, id \in 1..MaxId : Unsubscribe(t, id)
    \/ \E t \in Topics : pubs < MaxPub /\ Publish(t, "void(int)")
    \/ \E t \in Topics :
           pubs < MaxPub /\ PublishWithPriority(HIGH, t, "void(int)")
    \/ FanOut(1)
    \/ \E w \in 1..MaxThreads : WorkerTake(w)
    \/ \E w \in 1..MaxThreads : WorkerRun(w)

SpecDeliver == InitDeliver /\ [][NextDeliver]_vars

(***************************************************************************)
(* Specification SpecConc: the thread-safety test.  The main thread        *)
(* initializes a FIXED NORMAL bus whose queue holds every publish of the   *)
(* run, registers a topic, subscribes one handler to it, and starts        *)
(* NumPublishers threads that each                                         *)
(* publish PubsPerThread times while MaxThreads workers drain the queue.   *)
(***************************************************************************)
ConcConfig ==
    Config("FIXED", "NORMAL", MaxThreads, MaxThreads,
           NumPublishers * PubsPerThread)

StartPublishers ==
    /\ init_status /\ next_id = 1 /\ pubs = 0 /\ ~crashed
    /\ \A th \in 1..NumPublishers : pc[th] = 0 /\ cur[th] = Idle
    /\ pc' = [th \in 1..NumPublishers |-> PubsPerThread]
    /\ UNCHANGED <<busVars, regVars, task_queue, workers, cur, pubs, last,
                   fan, ghostVars, crashed>>

NextConc ==
    \/ ~init_status /\ initEventBus(ConcConfig)
    \/ "t1" \notin DOMAIN callbacks_map /\ TryRegisterEvent("t1")
    \/ \E cb \in IntCallbacks : next_id = 0 /\ SubscribeCallback("t1", cb)
    \/ StartPublishers
    \/ \E th \in 1..NumPublishers :
           pc[th] > 0 /\ PublishBegin(th, "publish", "t1", "void(int)", 0)
    \/ \E th \in 1..NumPublishers : FanOut(th)
    \/ \E w \in 1..MaxThreads : WorkerTake(w)
    \/ \E w \in 1..MaxThreads : WorkerRun(w)

SpecConc == InitDeliver /\ [][NextConc]_vars

(***************************************************************************)
(* Specification SpecThrow: handlers that throw.  On a bus with a pool the *)
(* caller registers one topic, subscribes handlers of which some throw,    *)
(* and publishes on each of the four paths; nothing is unsubscribed.       *)
(***************************************************************************)
NextThrow ==
    \/ \E c \in PoolConfigs : ~init_status /\ initEventBus(c)
    \/ TryRegisterEvent("t1")
    \/ \E cb \in ThrowCallbacks : SubscribeCallback("t1", cb)
    \/ \E a \in PublishSigs : pubs < MaxPub /\ Publish("t1", a)
    \/ \E a \in PublishSigs :
           pubs < MaxPub /\ PublishWithPriority(HIGH, "t1", a)
    \/ FanOut(1)
    \/ \E w \in 1..MaxThreads : WorkerTake(w)
    \/ \E w \in 1..MaxThreads : WorkerRun(w)

SpecThrow == InitDeliver /\ [][NextThrow]_vars

(***************************************************************************)
(* Specification SpecInit: initialisation.  initEventBus is called, any    *)
(* number of times, with every configuration object a caller can hand in:  *)
(* the fields of EventBusConfig are public, so each combination of values  *)
(* can be built by assignment on a default-constructed object (whose       *)
(* other fields hold whatever was in memory).  Between the calls the       *)
(* caller registers topics and subscribes.                                 *)
(***************************************************************************)
InitConfigs ==
    [thread_model : ThreadModels, task_model : TaskModels,
     thread_min : 0..MaxThreads, thread_max : 1..MaxThreads,
     task_max : {0, QueueCap}]

NextInit ==
    \/ \E c \in InitConfigs : initEventBus(c)
    \/ TryRegisterEvent("t1")
    \/ \E cb \in IntCallbacks : next_id = 0 /\ SubscribeCallback("t1", cb)

SpecInit == Init /\ [][NextInit]_vars

(***************************************************************************)
(* Specification SpecSig: handlers of different signatures.  On a bus with *)
(* a pool the caller registers one topic, subscribes handlers stored as    *)
(* void(), void(int) or void(int&), and publishes without arguments and    *)
(* with an int; nothing is unsubscribed.                                   *)
(***************************************************************************)
NextSig ==
    \/ \E c \in PoolConfigs : ~init_status /\ initEventBus(c)
    \/ TryRegisterEvent("t1")
    \/ \E cb \in Callbacks : Subscribe("t1", cb)
    \/ \E a \in PublishSigs : pubs < MaxPub /\ Publish("t1", a)
    \/ \E a \in PublishSigs :
           pubs < MaxPub /\ PublishWithPriority(LOW, "t1", a)
    \/ FanOut(1)
    \/ \E w \in 1..MaxThreads : WorkerTake(w)
    \/ \E w \in 1..MaxThreads : WorkerRun(w)

SpecSig == InitDeliver /\ [][NextSig]_vars

(***************************************************************************)
(* Specification SpecFull: a full queue.  The pool has one worker and a    *)
(* queue of QueueCap items; several threads publish to one topic without   *)
(* end, with and without priority, while the worker takes and runs the     *)
(* work items.                                                             *)
(***************************************************************************)
FullConfigs ==
    { Config("FIXED", "NORMAL", 1, 1, QueueCap),
      Config("FIXED", "PRIORITY", 1, 1, QueueCap) }

NextFull ==
    \/ \E c \in FullConfigs : ~init_status /\ initEventBus(c)
    \/ "t1" \notin DOMAIN callbacks_map /\ TryRegisterEvent("t1")
    \/ \E cb \in IntCallbacks :
           (\A th \in 1..NumPublishers : cur[th] = Idle)
           /\ SubscribeCallback("t1", cb)
    \/ \E th \in 1..NumPublishers :
           init_status /\ PublishBegin(th, "publish", "t1", "void(int)", 0)
    \/ \E th \in 1..NumPublishers, prio \in {HIGH, LOW} :
           init_status
           /\ PublishBegin(th, "publishWithPriority", "t1", "void(int)", prio)
    \/ \E th \in 1..NumPublishers : FanOut(th)
    \/ \E w \in 1..MaxThreads : WorkerTake(w)
    \/ \E w \in 1..MaxThreads : WorkerRun(w)

SpecFull == Init /\ [][NextFull]_vars

(***************************************************************************)
(* Specification SpecPrio: the priority queue.  On a PRIORITY bus with one *)
(* worker the caller subscribes handlers to one topic and publishes with   *)
(* each of the three priorities while the worker takes and runs the items. *)
(***************************************************************************)
PrioConfig == Config("FIXED", "PRIORITY", 1, 1, QueueCap)

NextPrio ==
    \/ ~init_status /\ initEventBus(PrioConfig)
    \/ "t1" \notin DOMAIN callbacks_map /\ TryRegisterEvent("t1")
    \/ \E cb \in IntCallbacks : SubscribeCallback("t1", cb)
    \/ \E prio \in Priorities :
           pubs < MaxPub /\ PublishWithPriority(prio, "t1", "void(int)")
    \/ FanOut(1)
    \/ \E w \in 1..MaxThreads : WorkerTake(w)
    \/ \E w \in 1..MaxThreads : WorkerRun(w)

SpecPrio == InitDeliver /\ [][NextPrio]_vars

(***************************************************************************)
(* Specification SpecBurst: the priority-ordering scenario.  On a PRIORITY *)
(* bus with one worker and room for every event in the queue, the caller   *)
(* subscribes one handler, publishes Burst LOW events and then Burst HIGH  *)
(* events; the worker takes and runs items from the moment it is started.  *)
(***************************************************************************)
BurstConfig == Config("FIXED", "PRIORITY", 1, 1, 2 * Burst)

NextBurst ==
    \/ ~init_status /\ initEventBus(BurstConfig)
    \/ "t1" \notin DOMAIN callbacks_map /\ TryRegisterEvent("t1")
    \/ \E cb \in IntCallbacks : next_id = 0 /\ SubscribeCallback("t1", cb)
    \/ next_id = 1 /\ pubs < Burst
       /\ PublishWithPriority(LOW, "t1", "void(int)")
    \/ next_id = 1 /\ pubs >= Burst /\ pubs < 2 * Burst
       /\ PublishWithPriority(HIGH, "t1", "void(int)")
    \/ FanOut(1)
    \/ \E w \in 1..MaxThreads : WorkerTake(w)
    \/ \E w \in 1..MaxThreads : WorkerRun(w)

SpecBurst == InitDeliver /\ [][NextBurst]_vars

(***************************************************************************)
(* Specification SpecPool: the pool's life.  On a DYNAMIC bus the caller   *)
(* registers one topic, subscribes and publishes without end, while the    *)
(* workers take and run items, the manager grows and shrinks the pool and  *)
(* the pool is, at some point, shut down.                                  *)
(***************************************************************************)
DynamicConfigs ==
    { Config("DYNAMIC", "NORMAL", 1, MaxThreads, QueueCap),
      Config("DYNAMIC", "NORMAL", 1, MaxThreads - 1, QueueCap),
      Config("DYNAMIC", "PRIORITY", 1, MaxThreads, QueueCap) }

NextPool ==
    \/ \E c \in DynamicConfigs : ~init_status /\ initEventBus(c)
    \/ "t1" \notin DOMAIN callbacks_map /\ TryRegisterEvent("t1")
    \/ \E cb \in IntCallbacks : SubscribeCallback("t1", cb)
    \/ init_status /\ Publish("t1", "void(int)")
    \/ init_status /\ PublishWithPriority(HIGH, "t1", "void(int)")
    \/ FanOut(1)
    \/ \E w \in 1..MaxThreads : WorkerTake(w)
    \/ \E w \in 1..MaxThreads : WorkerRun(w)
    \/ ManagerGrow
    \/ ManagerShrink
    \/ \E w \in 1..MaxThreads : WorkerExit(w)
    \/ CloseThreadPool
    \/ \E w \in 1..MaxThreads : WorkerStop(w)
    \/ ManagerStop
    \/ CloseReturn

SpecPool == Init /\ [][NextPool]_vars

(***************************************************************************)
(* Specification SpecSub: concurrent subscribe.  The main thread           *)
(* initializes the bus and registers the topics; then several threads      *)
(* subscribe, to the same topic or to different ones.                      *)
(***************************************************************************)
NextSub ==
    \/ ~init_status /\ initEventBus(ConcConfig)
    \/ \E t \in Topics :
           (\A th \in 1..NumPublishers : cur[th] = Idle)
           /\ t \notin DOMAIN callbacks_map /\ TryRegisterEvent(t)
    \/ \E th \in 1..NumPublishers, t \in Topics, cb \in IntCallbacks :
           init_status /\ SubscribeFind(th, t, cb)
    \/ \E th \in 1..NumPublishers : SubscribeEmplace(th)

SpecSub == Init /\ [][NextSub]_vars

(***************************************************************************)
(* Specification SpecRace: unsubscribe during a publish.  One thread       *)
(* subscribes and publishes on a bus with one worker; while its publish is *)
(* in the fan-out loop another thread unsubscribes.                        *)
(***************************************************************************)
RaceConfig == Config("FIXED", "NORMAL", 1, 1, QueueCap)

NextRace ==
    \/ ~init_status /\ initEventBus(RaceConfig)
    \/ "t1" \notin DOMAIN callbacks_map /\ TryRegisterEvent("t1")
    \/ \E cb \in IntCallbacks : SubscribeCallback("t1", cb)
    \/ pubs < MaxPub /\ Publish("t1", "void(int)")
    \/ FanOut(1)
    \/ \E id \in 1..MaxId : UnsubscribeDuringPublish("t1", id)
    \/ \E w \in 1..MaxThreads : WorkerTake(w)
    \/ \E w \in 1..MaxThreads : WorkerRun(w)

SpecRace == InitDeliver /\ [][NextRace]_vars

(***************************************************************************)
(* Specification SpecGrow: one topic keeps receiving subscribers, up to    *)
(* MaxGrow of them, so that its vector outgrows the capacity reserved at   *)
(* registration while work items of a publish are queued or running.       *)
(***************************************************************************)
SubscribeGrowing(t, cb) ==
    /\ CallerReady /\ next_id < MaxGrow
    /\ Commit("subscribeCallback", t, subscribeCallback(Bus, t, cb))
    /\ UNCHANGED removed

NextGrow ==
    \/ ~init_status /\ initEventBus(RaceConfig)
    \/ TryRegisterEvent("t1")
    \/ \E cb \in IntCallbacks : SubscribeGrowing("t1", cb)
    \/ pubs < MaxPub /\ Publish("t1", "void(int)")
    \/ FanOut(1)
    \/ \E w \in 1..MaxThreads : WorkerTake(w)
    \/ \E w \in 1..MaxThreads : WorkerRun(w)

SpecGrow == InitDeliver /\ [][NextGrow]_vars

(***************************************************************************)
(* Specification SpecQueue: a ThreadQueue of capacity QueueCap driven      *)
(* directly.  Every addTask call offers a fresh item (its number is the    *)
(* call's); getTask is called whatever the queue holds.                    *)
(***************************************************************************)
QueueItem(t, n) == [NoItem EXCEPT !.topic = t, !.slot = n]

QueueAddTask(t) ==
    /\ qlog.n < MaxQueueOps
    /\ LET task == QueueItem(t, qlog.n + 1)
           r == addTask(task_queue, QueueCap, task)
       IN  /\ task_queue' = r.q
           /\ qlog' = [qlog EXCEPT !.n = @ + 1,
                                   !.enq = IF r.ok THEN Append(@, task) ELSE @]
    /\ UNCHANGED <<busVars, regVars, workers, cur, pubs, last, fan, invoked,
                   expected, started, pc, track, crashed>>

QueueGetTask ==
    /\ task_queue = <<>> => qlog.empty < MaxQueueOps
    /\ LET r == getTask(task_queue)
       IN  /\ task_queue' = r.q
           /\ qlog' = [qlog EXCEPT !.deq = IF r.ok THEN Append(@, r.task) ELSE @,
                                   !.empty = IF r.ok THEN @ ELSE @ + 1]
    /\ UNCHANGED <<busVars, regVars, workers, cur, pubs, last, fan, invoked,
                   expected, started, pc, track, crashed>>

NextQueue ==
    \/ \E t \in Topics : QueueAddTask(t)
    \/ QueueGetTask

SpecQueue == Init /\ [][NextQueue]_vars

(***************************************************************************)
(* Specification SpecLoad: a DYNAMIC pool under load.  The queue holds     *)
(* more items than the pool can have workers, the caller keeps publishing, *)
(* and the threads are scheduled fairly: the manager's ticks come, a       *)
(* worker that can take, run or exit does so.                              *)
(***************************************************************************)
LoadConfig == Config("DYNAMIC", "NORMAL", 1, MaxThreads, QueueCap + 1)

NextLoad ==
    \/ ~init_status /\ initEventBus(LoadConfig)
    \/ "t1" \notin DOMAIN callbacks_map /\ TryRegisterEvent("t1")
    \/ \E cb \in IntCallbacks : SubscribeCallback("t1", cb)
    \/ init_status /\ Publish("t1", "void(int)")
    \/ FanOut(1)
    \/ \E w \in 1..MaxThreads : WorkerTake(w)
    \/ \E w \in 1..MaxThreads : WorkerRun(w)
    \/ ManagerGrow
    \/ ManagerShrink
    \/ \E w \in 1..MaxThreads : WorkerExit(w)

PoolFairness ==
    /\ WF_vars(ManagerGrow)
    /\ WF_vars(ManagerShrink)
    /\ \A w \in 1..MaxThreads :
           WF_vars(WorkerTake(w)) /\ WF_vars(WorkerRun(w))
           /\ WF_vars(WorkerExit(w))

SpecLoad == Init /\ [][NextLoad]_vars /\ PoolFairness

(***************************************************************************)
(* Specification SpecModes: FIXED and DYNAMIC buses side by side.  The     *)
(* FIXED configurations carry a thread_max equal to thread_min or larger;  *)
(* the queue holds more items than a FIXED pool has workers.  The manager  *)
(* and the workers' voluntary exit are part of every pool's behaviour.     *)
(***************************************************************************)
ModeConfigs ==
    { Config("FIXED", "NORMAL", 1, 1, QueueCap),
      Config("FIXED", "NORMAL", 1, MaxThreads, QueueCap),
      Config("FIXED", "PRIORITY", 1, MaxThreads, QueueCap),
      Config("DYNAMIC", "NORMAL", 1, MaxThreads, QueueCap) }

NextModes ==
    \/ \E c \in ModeConfigs : ~init_status /\ initEventBus(c)
    \/ "t1" \notin DOMAIN callbacks_map /\ TryRegisterEvent("t1")
    \/ \E cb \in IntCallbacks : SubscribeCallback("t1", cb)
    \/ init_status /\ Publish("t1", "void(int)")
    \/ init_status /\ PublishWithPriority(LOW, "t1", "void(int)")
    \/ FanOut(1)
    \/ \E w \in 1..MaxThreads : WorkerTake(w)
    \/ \E w \in 1..MaxThreads : WorkerRun(w)
    \/ ManagerGrow
    \/ ManagerShrink
    \/ \E w \in 1..MaxThreads : WorkerExit(w)
    \/ CloseThreadPool
    \/ \E w \in 1..MaxThreads : WorkerStop(w)
    \/ ManagerStop
    \/ CloseReturn

SpecModes == Init /\ [][NextModes]_vars

(***************************************************************************)
(* Specification SpecStop: the behaviours of SpecModes in which the pool's *)
(* threads are scheduled fairly, also during shutdown: a worker that can   *)
(* take, run (handlers return) or exit does so, the manager gets its       *)
(* ticks, and closeThreadPool returns once its joins are done.             *)
(***************************************************************************)
StopFairness ==
    /\ WF_vars(ManagerStop)
    /\ WF_vars(CloseReturn)
    /\ \A w \in 1..MaxThreads : WF_vars(WorkerStop(w))

SpecStop == Init /\ [][NextModes]_vars /\ PoolFairness /\ StopFairness

(***************************************************************************)
(* Specification SpecRetire: SpecLoad with its publishes recorded: which   *)
(* items a publish enqueued and which handlers ran for it.  A worker is    *)
(* scheduled well within a manager tick, so a worker that is again and     *)
(* again ready to dequeue does dequeue: the manager cannot start and       *)
(* retire workers for ever without one of them taking an item.             *)
(***************************************************************************)
NextRetire ==
    \/ ~init_status /\ initEventBus(LoadConfig)
    \/ "t1" \notin DOMAIN callbacks_map /\ TryRegisterEvent("t1")
    \/ \E cb \in IntCallbacks : SubscribeCallback("t1", cb)
    \/ init_status /\ pubs < MaxPub /\ Publish("t1", "void(int)")
    \/ FanOut(1)
    \/ \E w \in 1..MaxThreads : WorkerTake(w)
    \/ \E w \in 1..MaxThreads : WorkerRun(w)
    \/ ManagerGrow
    \/ ManagerShrink
    \/ \E w \in 1..MaxThreads : WorkerExit(w)

RetireFairness == \A w \in 1..MaxThreads : SF_vars(WorkerTake(w))

SpecRetire ==
    InitDeliver /\ [][NextRetire]_vars /\ PoolFairness /\ RetireFairness

(***************************************************************************)
(* Properties.                                                             *)
(***************************************************************************)
PublishOps == {"publish", "publishWithPriority"}

\* C1: every subscription id a subscribe or subscribeSafe call returns is at
\* least 1, greater than every id returned before it on any topic, and so
\* never returned twice, also after the earlier subscription was removed.
IdsIncrease ==
    [][(last'.n # last.n /\ last'.op \in SubscribeOps /\ last'.err = "none")
       => /\ last'.ret >= 1
          /\ \A i \in issued : last'.ret > i
          /\ last'.ret \notin issued
          /\ issued' = issued \cup {last'.ret}]_vars

\* Id 2 was issued after the subscription with id 1 had been removed.
IdsIncreaseWitness ==
    /\ last.op \in SubscribeOps /\ last.err = "none" /\ last.ret = 2
    /\ issued = {1, 2}
    /\ \A t \in DOMAIN callbacks_map :
           \A i \in 1..Len(callbacks_map[t]) : callbacks_map[t][i].id # 1

\* C2: a publish that returns normally has enqueued one work item for each
\* record of its topic and for no other record, in the order of the entry.
FanOutPerRecord ==
    [][(last'.n # last.n /\ last'.op \in PublishOps /\ last'.err = "none")
       => fan' = IdsOf(callbacks_map[last'.topic])]_vars

\* C3: once a publish has returned normally and none of its work items is
\* queued or running any more, every handler that accepts the published
\* type has been invoked for it.
AllHandlersInvoked ==
    \A p \in 1..Len(expected) :
        (/\ \A th \in 1..NumPublishers : cur[th].pub # p
         /\ Pending(p) = 0)
        => expected[p] \subseteq Range(invoked[p])

\* The concurrent run is over: every thread made its publishes and the pool
\* is drained.
ConcDone ==
    /\ pubs = NumPublishers * PubsPerThread
    /\ \A th \in 1..NumPublishers : pc[th] = 0 /\ cur[th] = Idle
    /\ task_queue = <<>>
    /\ BusyWorkers = {}

\* C4: with NumPublishers threads publishing PubsPerThread times each to a
\* topic with one subscriber, no work item runs twice, and when the run is
\* over the handler has run once for every publish.
ExactlyOncePerPublish ==
    /\ \A p \in 1..Len(invoked) : Len(invoked[p]) <= 1
    /\ ConcDone =>
           /\ Len(invoked) = NumPublishers * PubsPerThread
           /\ \A p \in 1..Len(invoked) : invoked[p] = <<1>>

\* The run is over and the last publish's handler invocation is recorded.
ExactlyOnceWitness ==
    /\ ConcDone
    /\ ~crashed
    /\ invoked[NumPublishers * PubsPerThread] = <<1>>

\* C5: on a registered topic, whatever its number of records, publish on a
\* PRIORITY bus and publishWithPriority on a NORMAL bus return
\* TaskModelMismatch and enqueue nothing.
MismatchAlwaysFails ==
    [][(/\ last'.n # last.n
        /\ init_status
        /\ last'.topic \in DOMAIN callbacks_map
        /\ \/ last'.op = "publish" /\ task_model = "PRIORITY"
           \/ last'.op = "publishWithPriority" /\ task_model = "NORMAL")
       => /\ last'.err = "TaskModelMismatch"
          /\ task_queue' = task_queue]_vars

\* C6: on an initialized bus, publish and publishWithPriority on a topic
\* that is not registered return NotRegistered without entering the loop,
\* enqueue nothing and leave the registry as it was.
PublishUnknownTopic ==
    [][\A t \in Topics :
         (/\ init_status
          /\ t \notin DOMAIN callbacks_map
          /\ \E a \in PublishSigs, prio \in Priorities :
                 Publish(t, a) \/ PublishWithPriority(prio, t, a))
         => /\ last'.n # last.n
            /\ last'.op \in PublishOps
            /\ last'.topic = t
            /\ last'.err = "NotRegistered"
            /\ UNCHANGED <<cur, task_queue, regVars>>]_vars

\* A publish of an unknown topic was refused while another topic held a
\* record.
PublishUnknownTopicWitness ==
    /\ init_status
    /\ last.op \in PublishOps /\ last.err = "NotRegistered"
    /\ last.topic \notin DOMAIN callbacks_map
    /\ \E t \in DOMAIN callbacks_map : Len(callbacks_map[t]) >= 1

\* C7: while the bus is not initialized, every call other than initEventBus
\* returns NotInitialized and changes neither the registry nor the queue.
UninitializedFails ==
    [][(~init_status /\ last'.n # last.n /\ last'.op # "init")
       => /\ last'.err = "NotInitialized"
          /\ UNCHANGED <<regVars, task_queue, busVars, cur>>]_vars

\* C8: on an initialized bus, either subscribe on a topic that is not
\* registered returns NotRegistered and leaves the entries, the topics and
\* next_id as they were; a subscribe that succeeds returns next_id + 1.
SubscribeUnknownTopic ==
    [][\A t \in Topics, cb \in IntCallbacks :
         (init_status /\ (Subscribe(t, cb) \/ SubscribeCallback(t, cb)))
         => IF t \notin DOMAIN callbacks_map
            THEN /\ last'.err = "NotRegistered"
                 /\ UNCHANGED <<callbacks_map, vcap, next_id, issued>>
            ELSE /\ last'.err = "none"
                 /\ last'.ret = next_id + 1]_vars

\* A subscribe was refused for an unknown topic after an id had been issued.
SubscribeUnknownTopicWitness ==
    /\ init_status
    /\ last.op \in {"subscribe", "subscribeCallback"}
    /\ last.err = "NotRegistered"
    /\ last.topic \notin DOMAIN callbacks_map
    /\ next_id >= 1

\* C9: on an initialized bus either subscribeSafe succeeds, and what it
\* leaves is what tryRegisterEvent followed by subscribe leaves: the topic
\* is registered and its entry is the old entry (empty if it was absent)
\* with the new record appended; no other entry changes.
SubscribeSafeRegisters ==
    [][\A t \in Topics, cb \in IntCallbacks :
         (init_status /\ (SubscribeSafe(t, cb) \/ SubscribeSafeCallback(t, cb)))
         => LET r == subscribe(tryRegisterEvent(Bus, t).bus, t, cb)
                old == IF t \in DOMAIN callbacks_map
                       THEN callbacks_map[t] ELSE <<>>
            IN  /\ last'.err = "none"
                /\ last'.ret = r.ret
                /\ callbacks_map' = r.bus.map
                /\ next_id' = r.bus.next
                /\ t \in DOMAIN callbacks_map'
                /\ callbacks_map'[t] =
                       Append(old, [id |-> last'.ret, callback |-> cb])
                /\ \A u \in DOMAIN callbacks_map :
                       u # t => callbacks_map'[u] = callbacks_map[u]]_vars

\* A subscribeSafe appended its record behind an earlier one.
SubscribeSafeRegistersWitness ==
    /\ last.op \in {"subscribeSafe", "subscribeSafeCallback"}
    /\ last.err = "none"
    /\ last.topic \in DOMAIN callbacks_map
    /\ Len(callbacks_map[last.topic]) = 2
    /\ callbacks_map[last.topic][2].id = last.ret

\* C10: on an initialized bus tryRegisterEvent leaves the topic registered,
\* with an empty entry if it was absent and with its records unchanged if
\* it was registered; no other entry changes, and registering once more
\* changes nothing.
RegisterIdempotent ==
    [][\A t \in Topics :
         (init_status /\ TryRegisterEvent(t))
         => /\ last'.err = "none"
            /\ DOMAIN callbacks_map' = DOMAIN callbacks_map \cup {t}
            /\ \A u \in DOMAIN callbacks_map :
                   callbacks_map'[u] = callbacks_map[u]
            /\ t \notin DOMAIN callbacks_map => callbacks_map'[t] = <<>>
            /\ next_id' = next_id
            /\ LET once == tryRegisterEvent(Bus, t).bus
               IN  tryRegisterEvent(once, t).bus = once]_vars

\* A topic that holds a record was registered again.
RegisterIdempotentWitness ==
    /\ last.op = "tryRegisterEvent" /\ last.err = "none"
    /\ last.topic \in DOMAIN callbacks_map
    /\ Len(callbacks_map[last.topic]) >= 1

\* C11: on an initialized bus unsubscribe(t, id) returns true exactly when
\* t holds a record with that id; it then removes that record and keeps
\* every other record of every topic in order, so that unsubscribing the id
\* a subscribe just returned restores the entry; otherwise (unknown topic,
\* unknown id, id of another topic) it returns false without an error and
\* changes nothing.
UnsubscribeExact ==
    [][\A t \in Topics, id \in 1..MaxId :
         (init_status /\ Unsubscribe(t, id))
         => LET has == /\ t \in DOMAIN callbacks_map
                       /\ \E i \in 1..Len(callbacks_map[t]) :
                              callbacks_map[t][i].id = id
            IN  /\ last'.err = "none"
                /\ (last'.ret = 1) <=> has
                /\ next_id' = next_id
                /\ DOMAIN callbacks_map' = DOMAIN callbacks_map
                /\ \A u \in DOMAIN callbacks_map :
                       callbacks_map'[u] =
                           IF has /\ u = t
                           THEN SelectSeq(callbacks_map[u],
                                          LAMBDA w : w.id # id)
                           ELSE callbacks_map[u]
                /\ \A u \in DOMAIN callbacks_map, cb \in IntCallbacks :
                       LET s == subscribe(Bus, u, cb)
                       IN  unsubscribe(s.bus, u, s.ret).bus.map
                               = callbacks_map]_vars

\* The first of two records of a topic was removed: the second remains.
UnsubscribeExactWitness ==
    /\ last.op = "unsubscribe" /\ last.err = "none" /\ last.ret = 1
    /\ 1 \in removed
    /\ callbacks_map[last.topic] # <<>>
    /\ callbacks_map[last.topic][1].id = 2

\* The ids the registry holds now.
Subscribed ==
    UNION {Range(IdsOf(callbacks_map[t])) : t \in DOMAIN callbacks_map}

\* Nothing will run for publish p any more: its loop is over and its work
\* items are done, or the process died.
Settled(p) ==
    /\ \A th \in 1..NumPublishers : cur[th].pub # p
    /\ Pending(p) = 0 \/ crashed

\* C12: a publish that starts after unsubscribe returned true for an id
\* never invokes that id's handler, and once nothing is left to run for
\* such a publish every handler of its topic that is still subscribed has
\* been invoked for it.
RemovedSilentOthersInvoked ==
    \A p \in 1..Len(started) :
        /\ Range(invoked[p]) \cap started[p].removed = {}
        /\ (started[p].removed # {} /\ Settled(p))
           => (expected[p] \cap Subscribed) \subseteq Range(invoked[p])

\* C13: a work item whose subscriber was unsubscribed after the item was
\* enqueued still invokes that subscriber's own handler when it runs.
RemovedItemRunsOwnHandler ==
    [][\A w \in 1..MaxThreads :
         (/\ WorkerRun(w)
          /\ workers[w].item.accepted
          /\ workers[w].item.for_id \in removed)
         => /\ ~crashed'
            /\ invoked'[workers[w].item.pub] =
                   Append(invoked[workers[w].item.pub],
                          workers[w].item.for_id)]_vars


\* The handler subscribed under an id throws when invoked.
Throws(id) ==
    \E t \in DOMAIN callbacks_map : \E i \in 1..Len(callbacks_map[t]) :
        callbacks_map[t][i].id = id /\ callbacks_map[t][i].callback.throws

\* How many times a publish invoked the handler of an id.
Occurrences(s, id) == Cardinality({i \in 1..Len(s) : s[i] = id})

LiveWorkers(ws) == {w \in 1..MaxThreads : ws[w].st # "off"}

\* C14: when a publish fans out to a handler that throws and to one that
\* does not, the one that does not is invoked exactly once for that publish;
\* the process and its workers survive, and every later publish that is
\* accepted is delivered to each of its handlers exactly once as well.
ThrowIsolated ==
    /\ ~crashed
    /\ init_status => Cardinality(LiveWorkers(workers)) = config.thread_min
    /\ \A p \in 1..Len(started) :
           Settled(p) =>
               \A b \in expected[p] : Occurrences(invoked[p], b) = 1

ThrowIsolatedWitness ==
    /\ Len(started) = 2
    /\ Settled(1) /\ Settled(2)
    /\ last.op \in PublishOps /\ last.err = "none"
    /\ \E a, b \in expected[1] :
           /\ Throws(a) /\ ~Throws(b)
           /\ Occurrences(invoked[1], a) = 1
           /\ Occurrences(invoked[1], b) = 1
           /\ b \in expected[2]
           /\ Occurrences(invoked[2], b) = 1

\* The handler a busy worker is about to call throws.
RunsThrower(w) ==
    /\ workers[w].st = "busy"
    /\ workers[w].item.accepted
    /\ Throws(workers[w].item.for_id)

\* C15: an exception thrown by a handler, whatever its type and whichever
\* of publish and publishWithPriority (with or without arguments) built the
\* work item, stays inside the work item: the process goes on, the
\* publisher's call and result are untouched, the same workers are alive,
\* and the worker that ran the handler is idle again, free to take the next
\* work item.
ExceptionStaysInWorkItem ==
    [][\A w \in 1..MaxThreads :
           (RunsThrower(w) /\ WorkerRun(w)) =>
               /\ ~crashed'
               /\ UNCHANGED <<last, cur, fan, pc, task_queue>>
               /\ LiveWorkers(workers') = LiveWorkers(workers)
               /\ workers'[w] = IdleWorker]_vars

\* One worker ran a handler that threw and, after it, another work item.
ExceptionStaysInWorkItemWitness ==
    /\ ~crashed
    /\ Cardinality(LiveWorkers(workers)) = 1
    /\ \E p \in 1..Len(invoked) :
           /\ Len(invoked[p]) = 2
           /\ Throws(invoked[p][1])
           /\ ~Throws(invoked[p][2])


\* C16: initEventBus with a configuration whose thread model is UNDEFINED
\* fails with a configuration error and leaves the bus uninitialized (so
\* that a following registration fails with NotInitialized).
UndefinedModelRejected ==
    [][\A c \in InitConfigs :
           (~init_status /\ c.thread_model = "UNDEFINED" /\ initEventBus(c))
           => /\ last'.err = "Configuration"
              /\ ~init_status'
              /\ tryRegisterEvent(Bus', "t1").err = "NotInitialized"]_vars

\* The configuration respects the bounds of the pool.
BoundsOk(c) == PoolCtorOk(c.thread_min, c.thread_max, c.task_max)

\* C17: initEventBus fails, the bus stays uninitialized and no worker is
\* started, for every configuration with thread_min < 1, thread_min >
\* thread_max or a queue capacity < 1.
InvalidBoundsRejected ==
    [][\A c \in InitConfigs :
           (~init_status /\ ~BoundsOk(c) /\ initEventBus(c))
           => /\ last'.err \in {"Configuration", "PoolConfig"}
              /\ ~init_status'
              /\ LiveWorkers(workers') = {}]_vars

\* The configuration has a defined thread model and a defined task model.
ModelsDefined(c) ==
    c.thread_model \in {"DYNAMIC", "FIXED"}
    /\ c.task_model \in {"NORMAL", "PRIORITY"}

\* C18: for every configuration with 1 <= thread_min <= thread_max, a
\* capacity >= 1 and defined thread and task models, initEventBus succeeds,
\* the bus is initialized, and the pool has thread_min workers right after.
ValidInitSucceeds ==
    [][\A c \in InitConfigs :
           (~init_status /\ BoundsOk(c) /\ ModelsDefined(c) /\ initEventBus(c))
           => /\ last'.err = "none"
              /\ init_status'
              /\ thread_pool'.live
              /\ Cardinality(LiveWorkers(workers')) = c.thread_min]_vars

ValidInitSucceedsWitness ==
    /\ last.op = "init" /\ last.err = "none"
    /\ init_status /\ thread_pool.live
    /\ config.thread_model = "DYNAMIC"
    /\ config.thread_min < config.thread_max
    /\ Cardinality(LiveWorkers(workers)) = config.thread_min

\* C19: initEventBus on an initialized bus is rejected with an error and
\* leaves the pool, its workers and queue, the queue discipline, the
\* configuration and the registry as they were.
ReinitRejected ==
    [][\A c \in InitConfigs :
           (init_status /\ initEventBus(c))
           => /\ last'.err # "none"
              /\ UNCHANGED <<thread_pool, workers, task_queue, task_model,
                             config, regVars>>]_vars


\* The signatures under which the handlers of an id are stored.
SigsOf(id) ==
    UNION {{callbacks_map[t][i].callback.sig :
                i \in {j \in 1..Len(callbacks_map[t]) :
                           callbacks_map[t][j].id = id}} :
           t \in DOMAIN callbacks_map}

\* The handler takes at least one parameter and its parameter list is not
\* the published one.
Mismatching(id, args) ==
    \E sig \in SigsOf(id) : sig # "void()" /\ sig # args

LastPublishOk ==
    /\ cur[1] = Idle
    /\ last.op \in PublishOps /\ last.err = "none"
    /\ Len(started) > 0

\* C21: a handler declared with a reference parameter (int&) is invoked by
\* a publish that passes the corresponding value (int): once the work items
\* of such a publish have run, the handler has been invoked once for it.
RefHandlerInvoked ==
    (LastPublishOk /\ Settled(Len(started))
     /\ started[Len(started)].args = "void(int)")
    => \A id \in Range(started[Len(started)].ids) :
           "void(int&)" \in SigsOf(id)
           => Occurrences(invoked[Len(started)], id) = 1


\* C22: a handler subscribed with no parameters is invoked once for every
\* accepted publish on its topic, whatever is published, and a publish
\* without arguments invokes zero-parameter handlers only.
ZeroParamAlways ==
    \A p \in 1..Len(started) :
        /\ started[p].args = "void()" =>
               \A id \in Range(invoked[p]) : SigsOf(id) = {"void()"}
        /\ (Settled(p)
            /\ (expected[p] # {} \/ (p = Len(started) /\ LastPublishOk)))
           => \A id \in Range(started[p].ids) :
                  "void()" \in SigsOf(id) => Occurrences(invoked[p], id) = 1

ZeroParamAlwaysWitness ==
    /\ Len(started) = 2
    /\ Settled(1) /\ Settled(2)
    /\ started[1].args = "void(int)" /\ started[2].args = "void()"
    /\ started[1].ids = <<1, 2>> /\ started[2].ids = <<1, 2>>
    /\ SigsOf(1) = {"void()"} /\ SigsOf(2) = {"void(int)"}
    /\ invoked[1] = <<1, 2>>
    /\ invoked[2] = <<1>>


\* C23: the task queue never holds more items than its capacity, however
\* the enqueues of the publishers and the dequeues of the workers interleave.
QueueWithinCapacity ==
    thread_pool.live => Len(task_queue) <= thread_pool.capacity

\* Two publishers are in their fan-out, the worker runs an item and the
\* queue is full.
QueueWithinCapacityWitness ==
    /\ thread_pool.live
    /\ Len(task_queue) = thread_pool.capacity
    /\ BusyWorkers # {}
    /\ \A th \in 1..NumPublishers : cur[th].op # "idle" /\ cur[th].i <= cur[th].n


\* The next step of a publisher's fan-out is a call of the queue's addTask.
Enqueues(th) ==
    /\ cur[th].op # "idle"
    /\ cur[th].i <= cur[th].n
    /\ thread_pool.live
    /\ task_model = thread_pool.type
    /\ (cur[th].op = "publishWithPriority") = (task_model = "PRIORITY")

\* C24: an enqueue on a queue that holds capacity items fails at once with
\* QueueFull and leaves the queue as it was; on a queue with fewer items it
\* appends the item at the tail.
EnqueueFailsFast ==
    [][\A th \in 1..NumPublishers :
           (Enqueues(th) /\ FanOut(th)) =>
               IF Len(task_queue) = thread_pool.capacity
               THEN /\ task_queue' = task_queue
                    /\ last'.err = "QueueFull"
                    /\ cur'[th] = Idle
               ELSE /\ task_queue' = Append(task_queue, WorkItem(cur[th]))
                    /\ last' = last]_vars

\* A publish has just failed on the full queue.
EnqueueFailsFastWitness ==
    /\ last.op \in PublishOps /\ last.err = "QueueFull"
    /\ Len(task_queue) = thread_pool.capacity
    /\ \E th \in 1..NumPublishers : cur[th] = Idle

\* C25: when a publish to a topic with k subscribers fails on the full queue
\* after r < k enqueues, the call returns QueueFull, the work items it
\* enqueued are those of the first r subscribers in insertion order, the
\* queue keeps what it holds, and nothing is enqueued for the other k - r.
PartialFanOutKept ==
    [][(cur[1].op # "idle" /\ FanOut(1) /\ last'.err = "QueueFull"
        /\ cur'[1] = Idle)
       => LET c == cur[1]
              r == c.i - 1
          IN  /\ r < c.n
              /\ fan = SubSeq(IdsOf(callbacks_map[c.topic]), 1, r)
              /\ fan' = fan
              /\ task_queue' = task_queue
              /\ Len(task_queue) = thread_pool.capacity]_vars

\* The second of two subscribers found the queue full: r = 1 of k = 2.
PartialFanOutKeptWitness ==
    /\ last.op \in PublishOps /\ last.err = "QueueFull"
    /\ cur[1] = Idle
    /\ Len(fan) = 1
    /\ Len(callbacks_map[last.topic]) = 2
    /\ fan[1] = callbacks_map[last.topic][1].id
    /\ \E i \in 1..Len(task_queue) : task_queue[i].for_id = fan[1]


\* The priority class the publisher gave to the publish an item belongs to.
ClassOf(item) == started[item.pub].prio

\* Item i of the queue comes before item j: lower class, or the same class
\* and enqueued earlier.
Before(q, i, j) ==
    \/ ClassOf(q[i]) < ClassOf(q[j])
    \/ ClassOf(q[i]) = ClassOf(q[j]) /\ i <= j

\* C26: every dequeue from the priority queue returns the queued item with
\* the least (priority class, insertion order) pair, HIGH = 0 < MIDDLE = 1 <
\* LOW = 2: nothing of a lower class leaves while a HIGH item is queued,
\* and items of one class leave in the order they were enqueued.
PriorityDequeueLeast ==
    [][\A w \in 1..MaxThreads :
           (thread_pool.type = "PRIORITY" /\ WorkerTake(w)) =>
               \E k \in 1..Len(task_queue) :
                   /\ workers'[w].item = task_queue[k]
                   /\ task_queue' = SubSeq(task_queue, 1, k - 1)
                                    \o SubSeq(task_queue, k + 1,
                                              Len(task_queue))
                   /\ \A j \in 1..Len(task_queue) : Before(task_queue, k, j)]_vars

\* The worker runs the HIGH item of the second publish while the item of
\* the first publish, of a lower class, is still queued.
PriorityDequeueLeastWitness ==
    /\ thread_pool.live /\ thread_pool.type = "PRIORITY"
    /\ workers[1].st = "busy"
    /\ workers[1].item.pub = 2
    /\ ClassOf(workers[1].item) = HIGH
    /\ \E i \in 1..Len(task_queue) :
           task_queue[i].pub = 1 /\ ClassOf(task_queue[i]) > HIGH


\* In the priority-ordering scenario the first Burst publishes are the LOW
\* events and the next Burst publishes the HIGH events.
HighQueued == {i \in 1..Len(task_queue) : task_queue[i].pub > Burst}

\* C27 as stated: no LOW execution is recorded before all HIGH executions
\* have been recorded (so the first execution recorded is a HIGH one).
LowAfterAllHigh ==
    \A l \in 1..Len(invoked) :
        (l <= Burst /\ invoked[l] # <<>>) =>
            \A h \in (Burst + 1)..(2 * Burst) :
                h <= Len(invoked) /\ invoked[h] # <<>>

\* C27, amended: whenever the single worker takes an item while a HIGH
\* event is queued, it takes the HIGH event that was published first, and
\* no LOW event; a LOW event runs before a HIGH one only when the worker
\* took it before that HIGH event was enqueued.
HighFirstWhileQueued ==
    [][\A w \in 1..MaxThreads :
           (WorkerTake(w) /\ HighQueued # {}) =>
               /\ workers'[w].item.pub > Burst
               /\ \A i \in HighQueued :
                      workers'[w].item.pub <= task_queue[i].pub]_vars

\* The worker runs a HIGH event while a LOW event, published before it, is
\* still queued.
HighFirstWhileQueuedWitness ==
    /\ workers[1].st = "busy"
    /\ workers[1].item.pub > Burst
    /\ \E i \in 1..Len(task_queue) : task_queue[i].pub <= Burst


\* C28: while the bus is initialized and its pool is not shut down, the
\* number of running workers is at least thread_min and at most thread_max,
\* however manager ticks, worker exits, submissions and executions
\* interleave (and the shrink credits never exceed the workers above
\* thread_min).
WorkersWithinBounds ==
    (init_status /\ thread_pool.live /\ ~thread_pool.shutdown) =>
        /\ config.thread_min <= PoolSize
        /\ PoolSize <= config.thread_max
        /\ thread_pool.shrink_credits <= PoolSize - config.thread_min

\* The manager grew the pool to thread_max and has issued a shrink credit.
WorkersWithinBoundsWitness ==
    /\ init_status /\ thread_pool.live /\ ~thread_pool.shutdown
    /\ config.thread_min < config.thread_max
    /\ PoolSize = config.thread_max
    /\ thread_pool.shrink_credits = 1

\* C29: shutdown is terminal and idempotent: once closeThreadPool has
\* returned, a second closeThreadPool changes nothing and the pool stays
\* shut down with no worker; every submission after the shutdown, with or
\* without priority, fails with PoolShutdown and enqueues nothing.
ShutdownTerminal ==
    [][/\ thread_pool.shutdown => thread_pool'.shutdown
       /\ thread_pool.closed => thread_pool'.closed /\ PoolSize' = 0
       /\ (thread_pool.closed /\ CloseThreadPool) => UNCHANGED vars
       /\ \A th \in 1..NumPublishers :
              (thread_pool.shutdown /\ Enqueues(th) /\ FanOut(th)) =>
                  /\ last'.err = "PoolShutdown"
                  /\ task_queue' = task_queue]_vars

\* A publish failed on the pool after closeThreadPool returned.
ShutdownTerminalWitness ==
    /\ thread_pool.closed
    /\ last.op \in PublishOps /\ last.err = "PoolShutdown"
    /\ PoolSize = 0


\* The places of the registry that hold a record with this id.
RecordsOf(id) ==
    UNION {{<<t, i>> : i \in {j \in 1..Len(callbacks_map[t]) :
                                  callbacks_map[t][j].id = id}} :
           t \in DOMAIN callbacks_map}

\* C30: after concurrent subscribe calls, on one topic or on several, the
\* process is alive and the registry holds exactly one record for each id
\* a call has returned.
ConcurrentSubscribeKept ==
    /\ ~crashed
    /\ \A id \in issued : Cardinality(RecordsOf(id)) = 1


\* C31: when unsubscribe runs while a publish is in its fan-out, the
\* publish, once it has returned, has enqueued exactly one work item for
\* every subscriber of the topic that was not removed, none twice, and none
\* for an element outside the topic's entry.
RacingUnsubscribeFanOut ==
    LastPublishOk =>
        /\ 0 \notin Range(fan)
        /\ \A id \in Range(fan) : Occurrences(fan, id) = 1
        /\ \A id \in Range(started[Len(started)].ids) :
               id \notin removed => Occurrences(fan, id) = 1


\* C32: a work item that runs after further handlers were subscribed to its
\* topic, the subscribe that moves the topic's vector to a larger buffer
\* included, invokes the handler of the subscription it was created for and
\* nothing else.
QueuedItemKeepsHandlerOnSubscribe ==
    [][\A w \in 1..MaxThreads :
         (/\ WorkerRun(w)
          /\ workers[w].item.accepted
          /\ Len(callbacks_map[workers[w].item.topic])
                 > Len(started[workers[w].item.pub].ids))
         => /\ ~crashed'
            /\ invoked'[workers[w].item.pub] =
                   Append(invoked[workers[w].item.pub],
                          workers[w].item.for_id)]_vars


\* C33: the items getTask has returned are, in order, the first of the items
\* whose addTask succeeded, and the rest of those are the queue's content;
\* no item is returned twice; a getTask on an empty queue returns no item
\* and leaves the queue empty.
FifoDequeueOrder ==
    /\ [](/\ qlog.enq = qlog.deq \o task_queue
          /\ \A i, j \in 1..Len(qlog.deq) :
                 qlog.deq[i] = qlog.deq[j] => i = j)
    /\ [][(QueueGetTask /\ task_queue = <<>>)
          => (task_queue' = <<>> /\ qlog'.deq = qlog.deq)]_vars

\* Items were returned in order around a rejected addTask and a getTask on
\* the empty queue.
FifoDequeueOrderWitness ==
    /\ Len(qlog.deq) >= 3
    /\ Len(qlog.enq) < qlog.n
    /\ qlog.empty > 0


\* Where an id stands in a sequence of ids.
Pos(s, id) == CHOOSE k \in 1..Len(s) : s[k] = id

\* C34: on a bus with a FIFO queue and one worker, the handlers a publish
\* invokes are subscribers the topic had at the publish, and they run in
\* the order in which they were subscribed.
HandlersInSubscriptionOrder ==
    (thread_pool.live /\ thread_pool.type = "NORMAL" /\ PoolSize = 1) =>
        \A p \in 1..Len(invoked) :
            /\ Range(invoked[p]) \subseteq Range(started[p].ids)
            /\ \A i, j \in 1..Len(invoked[p]) :
                   i < j => Pos(started[p].ids, invoked[p][i])
                                < Pos(started[p].ids, invoked[p][j])

\* One worker has run three handlers of one publish.
HandlersInSubscriptionOrderWitness ==
    /\ thread_pool.live /\ thread_pool.type = "NORMAL" /\ PoolSize = 1
    /\ \E p \in 1..Len(invoked) : Len(invoked[p]) >= 3


\* C35: while a DYNAMIC pool runs, its shrink credits are at least 0 and at
\* most the number of workers minus thread_min, so the workers left when
\* every outstanding credit is consumed are at least thread_min.
ShrinkCreditsBounded ==
    (thread_pool.live /\ thread_pool.dynamic /\ ~thread_pool.shutdown) =>
        /\ thread_pool.shrink_credits >= 0
        /\ thread_pool.shrink_credits <= PoolSize - thread_pool.thread_min
        /\ PoolSize - thread_pool.shrink_credits >= thread_pool.thread_min

\* A credit is outstanding while a worker runs an item and more are queued.
ShrinkCreditsBoundedWitness ==
    /\ thread_pool.live /\ thread_pool.dynamic /\ ~thread_pool.shutdown
    /\ thread_pool.shrink_credits > 0
    /\ BusyWorkers # {}
    /\ task_queue # <<>>


\* The manager's Grow condition on the backlog: more items queued than
\* workers in a running DYNAMIC pool.
Load ==
    /\ thread_pool.live /\ thread_pool.dynamic /\ ~thread_pool.shutdown
    /\ Len(task_queue) > PoolSize

\* C36: while more items are queued than the DYNAMIC pool has workers, the
\* number of workers never goes down, a tick of the manager adds at most
\* one worker, and the number of workers eventually is thread_max.
SustainedLoadGrows ==
    /\ [][/\ (Load /\ Load') => PoolSize' >= PoolSize
          /\ (ManagerGrow \/ ManagerShrink) =>
                 PoolSize' \in {PoolSize, PoolSize + 1}]_vars
    /\ [](Load => <>(~Load \/ PoolSize = thread_pool.thread_max))


\* Nothing is submitted, queued or running on a running DYNAMIC pool.
Quiet ==
    /\ init_status /\ thread_pool.live /\ thread_pool.dynamic
    /\ ~thread_pool.shutdown /\ ~crashed
    /\ cur[1] = Idle
    /\ task_queue = <<>>
    /\ BusyWorkers = {}

\* C37: when from some point on nothing is submitted to a DYNAMIC pool and
\* none of its workers is busy, then from some point on the pool has
\* exactly thread_min workers and no shrink credit is outstanding.
SustainedIdleShrinks ==
    <>[]Quiet =>
        <>[](PoolSize = config.thread_min /\ thread_pool.shrink_credits = 0)

\* The pool is idle with more than thread_min workers, one of them marked
\* for its exit.
SustainedIdleShrinksWitness ==
    /\ Quiet
    /\ PoolSize > config.thread_min
    /\ thread_pool.shrink_credits > 0
    /\ next_id > 0


\* C38: on a bus initialized with the FIXED thread model, from init until
\* the pool's shutdown, no manager runs, no shrink credit exists and the
\* pool has exactly thread_min workers, also when more items are queued
\* than it has workers and when the configuration's thread_max is larger
\* than its thread_min.
FixedPoolConstant ==
    (/\ init_status /\ thread_pool.live /\ ~thread_pool.shutdown
     /\ config.thread_model = "FIXED") =>
        /\ ~thread_pool.dynamic
        /\ ~ManagerRuns
        /\ thread_pool.shrink_credits = 0
        /\ PoolSize = config.thread_min

\* A FIXED pool whose configuration allows more workers has a backlog
\* larger than its workers while one of them runs an item.
FixedPoolConstantWitness ==
    /\ init_status /\ thread_pool.live /\ ~thread_pool.shutdown
    /\ config.thread_model = "FIXED"
    /\ config.thread_max > config.thread_min
    /\ Len(task_queue) > PoolSize
    /\ BusyWorkers # {}


\* C39: once closeThreadPool has been called, the workers finish what is
\* queued and exit, the manager exits, and closeThreadPool returns: no
\* worker and no manager is left.
ShutdownCompletes ==
    thread_pool.shutdown ~>
        (thread_pool.closed /\ PoolSize = 0 /\ ~thread_pool.manager)

\* closeThreadPool was called on a DYNAMIC pool while a worker runs an item,
\* another waits on the queue and the manager is alive.
ShutdownCompletesWitness ==
    /\ thread_pool.shutdown /\ ~thread_pool.closed
    /\ thread_pool.manager
    /\ BusyWorkers # {}
    /\ \E w \in 1..MaxThreads : workers[w].st = "idle"
    /\ task_queue = <<>>


\* fan lists the items of the latest recorded publish.
FanOfLatest ==
    /\ Len(started) > 0
    /\ \/ cur[1].pub = Len(started)
       \/ /\ cur[1] = Idle
          /\ last.op \in PublishOps /\ last.err \in {"none", "QueueFull"}

=============================================================================
